---- MODULE Spec2Model ----
(***************************************************************************)
(* ScriptJangler: the scene-production pipeline of src/App.tsx             *)
(* (runDirector) and src/services/geminiService.ts (parseScriptWithGemini, *)
(* checkContinuity, generateStageHandImage, fetchImageAsBase64,            *)
(* generateVeoVideo).                                                      *)
(*                                                                         *)
(* runDirector is one async function; every `await` of an external call is *)
(* a suspension point, and one action of this module runs the code from    *)
(* one suspension point to the next.  The external services (Gemini text,  *)
(* image and video job APIs, fetch) answer nondeterministically.           *)
(*                                                                         *)
(* JavaScript objects are functions from field names to values; an absent  *)
(* field is a name outside the DOMAIN.  Object spread {...a, ...b} is      *)
(* b @@ a.  Opaque texts (title, visualPrompt, narrativeContext, message   *)
(* wording) are abstracted to tags; a log entry keeps the scene id its     *)
(* message template interpolates (0 when it interpolates none).            *)
(***************************************************************************)
EXTENDS Integers, Sequences, FiniteSets, TLC

\* ------------------------------------------------------------------ bounds
\* Largest number of items the parser call returns.
MaxScenes == 3
\* Largest number of not-done reports of one video job.
MaxPolls == 2
\* Largest number of scenes of a script in the runs checked under fairness.
MaxLiveScenes == 2

\* ------------------------------------------------------------- program state
VARIABLES
    apiKeyReady,    \* App.tsx:41
    isProcessing,   \* App.tsx:45
    stopSignal,     \* App.tsx:55  stopSignalRef.current
    scenes,         \* App.tsx:43
    logs,           \* App.tsx:44
    pc,             \* position of runDirector (which await it is suspended at)
    response,       \* the parser call in flight and, once fixed, its answer
    parsedScenes,   \* App.tsx:117 local of runDirector
    i,              \* App.tsx:124 loop index (1-based here)
    previousScene,  \* App.tsx:122
    continuityCheck,\* App.tsx:134
    imageBase64,    \* App.tsx:147
    veoArgs,        \* arguments of the running generateVeoVideo call
    operation,      \* geminiService.ts:197
    waits,          \* 5-second waits of the running poll loop
    queries,        \* getVideosOperation calls of the running poll loop
    reports,        \* done flags the job service has reported for the running job
    calls,          \* external calls made in this run, in order
    outcome,        \* how the last run ended: "none", "wrapped", "failed"
    lastRun         \* while the parser call is pending: how the run before ended

vars == << apiKeyReady, isProcessing, stopSignal, scenes, logs, pc, response,
           parsedScenes, i, previousScene, continuityCheck, imageBase64,
           veoArgs, operation, waits, queries, reports, calls, outcome, lastRun >>

\* ------------------------------------------------------------------ values
\* types.ts AgentRole / SceneStatus are strings and are used as such.
NoScene == [null |-> TRUE]
NoHandle == 0
NoUri == ""
NoImage == ""
NoCheck == [shouldExtend |-> FALSE, reasoning |-> "none"]
NoArgs == [scene |-> 0, handle |-> NoHandle, shouldExtend |-> FALSE, image |-> NoImage]
NoOperation == [done |-> FALSE, error |-> FALSE, uri |-> NoUri, handle |-> NoHandle]

Has(obj, field) == field \in DOMAIN obj

\* previousScene?.videoHandle
HandleOf(scene) ==
    IF scene # NoScene /\ Has(scene, "videoHandle") THEN scene.videoHandle ELSE NoHandle

\* currentScene.imageUrl, as a condition
HasImageUrl(scene) == Has(scene, "imageUrl") /\ scene.imageUrl # ""

\* addLog builds one entry; id and timestamp are not modelled.
Entry(role, message, status, sceneId) ==
    [role |-> role, message |-> message, status |-> status, scene |-> sceneId]

\* One external call, as the service sees it, with how it was answered.
Call(api, by, sceneIdx, answer) ==
    [api |-> api, by |-> by, scene |-> sceneIdx, answer |-> answer, mode |-> "none",
     model |-> "none", resolution |-> "none", video |-> NoHandle, image |-> NoImage]


\* setLogs(prev => [...prev, entry])
addLog(log, role, message, status, sceneId) ==
    Append(log, Entry(role, message, status, sceneId))

\* A map without the test of the id: every scene gets the status.
updateSceneStatus_EveryScene(list, id, status) ==
    [k \in DOMAIN list |-> [status |-> status] @@ list[k]]

\* setScenes(prev => prev.map(s => s.id === id ? { ...s, status } : s))
updateSceneStatus(list, id, status) ==
    [k \in DOMAIN list |->
        IF list[k].id = id THEN [status |-> status] @@ list[k] ELSE list[k]]

\* setScenes(prev => prev.map(s => s.id === id ? { ...s, ...data } : s))
updateSceneData(list, id, data) ==
    [k \in DOMAIN list |-> IF list[k].id = id THEN data @@ list[k] ELSE list[k]]

\* --------------------------------------------------------- script parser
\* Sequences over S of length at most n.
SeqUpTo(S, n) == UNION { [1..m -> S] : m \in 0..n }

\* Items as the responseSchema of the parser call describes them: title,
\* visualPrompt, narrativeContext (one opaque tag here) and an optional imageUrl.
SchemaItems == { [title |-> "t"], [title |-> "t", imageUrl |-> "url"] }

\* Items of any JSON array: they may also carry fields of their own named id
\* or status.
AnyItems ==
    SchemaItems
    \cup { [title |-> "t", id |-> n] : n \in {1, 7} }
    \cup { [title |-> "t", status |-> "COMPLETED"] }
    \cup { [title |-> "t", id |-> 7, status |-> "COMPLETED", imageUrl |-> "url"] }

\* What the parser call can answer: getClient finds no key, generateContent
\* rejects, the text is not JSON (or not an array), the text is empty, or the
\* text is a JSON array.
ResponsesOver(Items) ==
    { [kind |-> k, items |-> << >>] : k \in {"nokey", "reject", "malformed", "empty"} }
    \cup { [kind |-> "array", items |-> s] : s \in SeqUpTo(Items, MaxScenes) }

NoResponse == [kind |-> "none", items |-> << >>]

\* The parser call is in flight and its answer is not yet determined.
PendingResponse == [kind |-> "pending", items |-> << >>]

\* The answers a parser call in flight can settle with.
SettledResponses(resp) ==
    IF resp = PendingResponse THEN ResponsesOver(SchemaItems) ELSE {resp}

\* parsed.map((item, index) => ({ id: index + 1, ...item, status: 'IDLE' }))
\* with index counted from 0 in the code and from 1 here.
MapItems(items) ==
    [index \in DOMAIN items |->
        [status |-> "IDLE"] @@ items[index] @@ [id |-> (index - 1) + 1]]

\* JSON.parse(response.text) without the "[]" default: an empty text throws.
parseScriptWithGemini_EmptyThrows(resp) ==
    CASE resp.kind \in {"nokey", "reject", "malformed", "empty"} ->
             [threw |-> TRUE, scenes |-> << >>]
      [] OTHER -> [threw |-> FALSE, scenes |-> MapItems(resp.items)]

\* JSON.parse(response.text || "[]") and the map; threw = the promise rejects.
parseScriptWithGemini(resp) ==
    CASE resp.kind \in {"nokey", "reject", "malformed"} ->
             [threw |-> TRUE, scenes |-> << >>]
      [] resp.kind = "empty" -> [threw |-> FALSE, scenes |-> MapItems(<< >>)]
      [] OTHER -> [threw |-> FALSE, scenes |-> MapItems(resp.items)]

\* The external calls parseScriptWithGemini makes for a response.
ParserCalls(resp) ==
    IF resp.kind = "nokey"
    THEN << Call("getClient", "parseScriptWithGemini", 0, "nokey") >>
    ELSE << Call("getClient", "parseScriptWithGemini", 0, "ok"),
            Call("generateContent", "parseScriptWithGemini", 0, resp.kind) >>


\* --------------------------------------------------- continuity evaluator
\* What the continuity call can answer: getClient finds no key, generateContent
\* rejects, the text is non-empty and not JSON, the text is empty, or the text
\* is the JSON of a verdict.
ContinuityResponses == {"nokey", "reject", "malformed", "empty", "extend", "cut"}

\* checkContinuity past its first test: getClient, generateContent and
\* JSON.parse(response.text || '{"shouldExtend": false, "reasoning": "Parse error"}').
\* calls = the external calls made; threw = the promise rejects.
askContinuity(sceneIdx, resp) ==
    CASE resp = "nokey" ->
             [threw |-> TRUE, value |-> NoCheck,
              calls |-> << Call("getClient", "checkContinuity", sceneIdx, "nokey") >>]
      [] resp \in {"reject", "malformed"} ->
             \* a rejected call; JSON.parse throwing on a non-empty text
             [threw |-> TRUE, value |-> NoCheck,
              calls |-> << Call("getClient", "checkContinuity", sceneIdx, "ok"),
                           Call("generateContent", "checkContinuity", sceneIdx, resp) >>]
      [] OTHER ->
             [threw |-> FALSE,
              calls |-> << Call("getClient", "checkContinuity", sceneIdx, "ok"),
                           Call("generateContent", "checkContinuity", sceneIdx, resp) >>,
              value |->
                  CASE resp = "empty" ->
                           [shouldExtend |-> FALSE, reasoning |-> "Parse error"]
                    [] resp = "extend" ->
                           [shouldExtend |-> TRUE, reasoning |-> "model"]
                    [] OTHER ->
                           [shouldExtend |-> FALSE, reasoning |-> "model"]]

\* A checkContinuity without the first-scene short circuit.
checkContinuity_AlwaysAsks(sceneIdx, prev, resp) == askContinuity(sceneIdx, resp)

\* checkContinuity(currentScene, previousScene) for an answer of the service.
checkContinuity(sceneIdx, prev, resp) ==
    IF prev = NoScene
    THEN [threw |-> FALSE, calls |-> << >>,
          value |-> [shouldExtend |-> FALSE, reasoning |-> "first scene"]]
    ELSE askContinuity(sceneIdx, resp)

\* ------------------------------------------------------------ asset preparer
AssetAnswers == {"ok", "fail"}

\* An asset preparer that synthesizes a frame when the fetch has failed.
AssetCalls_FallsBack(scene, sceneIdx, ans) ==
    IF HasImageUrl(scene)
    THEN IF ans = "ok"
         THEN << Call("fetch", "fetchImageAsBase64", sceneIdx, ans) >>
         ELSE << Call("fetch", "fetchImageAsBase64", sceneIdx, ans),
                 Call("getClient", "generateStageHandImage", sceneIdx, "ok"),
                 Call("generateContent", "generateStageHandImage", sceneIdx, ans) >>
    ELSE << Call("getClient", "generateStageHandImage", sceneIdx, "ok"),
            Call("generateContent", "generateStageHandImage", sceneIdx, ans) >>

\* The external calls of the strategy runDirector picks for the scene.
AssetCalls(scene, sceneIdx, ans) ==
    IF HasImageUrl(scene)
    THEN << Call("fetch", "fetchImageAsBase64", sceneIdx, ans) >>
    ELSE << Call("getClient", "generateStageHandImage", sceneIdx, "ok"),
            Call("generateContent", "generateStageHandImage", sceneIdx, ans) >>

\* An asset failure reported the way the outer catch reports a fatal one.
AssetFailureLog_AsError(log) ==
    addLog(log, "DIRECTOR", "critical failure", "error", 0)

\* catch (err) { addLog(STAGE_HAND, `Asset preparation failed: ...`, 'warning') }
AssetFailureLog(log) ==
    addLog(log, "STAGE_HAND", "asset preparation failed", "warning", 0)

\* ---------------------------------------------------------- video synthesizer
\* const canExtend = continuityCheck.shouldExtend && previousScene?.videoHandle
CanExtend(check, prev) == check.shouldExtend /\ HandleOf(prev) # NoHandle

\* if (shouldExtend && previousSceneVideoHandle) ... else ...
VeoMode(shouldExtend, handle) ==
    IF shouldExtend /\ handle # NoHandle THEN "extension" ELSE "fresh"

\* A fresh-mode request that still attaches the previous clip's handle.
VeoRequest_HandleAttached(args) ==
    IF VeoMode(args.shouldExtend, args.handle) = "extension"
    THEN [api |-> "generateVideos", by |-> "generateVeoVideo", scene |-> args.scene,
          answer |-> "pending", mode |-> "extension", model |-> "veo-3.1-generate-preview",
          resolution |-> "720p", video |-> args.handle, image |-> NoImage]
    ELSE [api |-> "generateVideos", by |-> "generateVeoVideo", scene |-> args.scene,
          answer |-> "pending", mode |-> "fresh", model |-> "veo-3.1-fast-generate-preview",
          resolution |-> "1080p", video |-> args.handle, image |-> args.image]

\* The generateVideos request generateVeoVideo builds from its arguments.
VeoRequest(args) ==
    IF VeoMode(args.shouldExtend, args.handle) = "extension"
    THEN [api |-> "generateVideos", by |-> "generateVeoVideo", scene |-> args.scene,
          answer |-> "pending", mode |-> "extension", model |-> "veo-3.1-generate-preview",
          resolution |-> "720p", video |-> args.handle, image |-> NoImage]
    ELSE [api |-> "generateVideos", by |-> "generateVeoVideo", scene |-> args.scene,
          answer |-> "pending", mode |-> "fresh", model |-> "veo-3.1-fast-generate-preview",
          resolution |-> "1080p", video |-> NoHandle, image |-> args.image]

\* The arguments runDirector passes to generateVeoVideo.
VeoArgs(sceneIdx, check, prev, image) ==
    [scene |-> sceneIdx, handle |-> HandleOf(prev),
     shouldExtend |-> CanExtend(check, prev), image |-> image]

\* Extension decided by the continuity verdict alone, without the handle test.
GenerateCall_VerdictOnly(sceneIdx, check, prev, image) ==
    IF check.shouldExtend
    THEN [api |-> "generateVideos", by |-> "generateVeoVideo", scene |-> sceneIdx,
          answer |-> "pending", mode |-> "extension",
          model |-> "veo-3.1-generate-preview", resolution |-> "720p",
          video |-> HandleOf(prev), image |-> NoImage]
    ELSE VeoRequest(VeoArgs(sceneIdx, check, prev, image))

\* The request that reaches the video job service for a scene: runDirector's
\* canExtend, then generateVeoVideo's own test of flag and handle.
GenerateCall(sceneIdx, check, prev, image) ==
    VeoRequest(VeoArgs(sceneIdx, check, prev, image))

\* The progress events generateVeoVideo emits up to the submission.
VeoOpeningLogs(log, args, sceneId) ==
    LET l1 == addLog(log, "GENERATOR", "initializing", "thinking", sceneId)
    IN  IF VeoMode(args.shouldExtend, args.handle) = "extension"
        THEN addLog(l1, "GENERATOR", "extending", "thinking", 0)
        ELSE IF args.image # NoImage
             THEN addLog(l1, "GENERATOR", "applying image", "info", 0)
             ELSE l1

\* A do-while loop: one wait and query before the first test of done.
PollCondition_AtLeastOnce(op) == ~op.done \/ waits = 0

\* while (!operation.done)
PollCondition(op) == ~op.done

NotDoneCount(rs) == Cardinality({k \in DOMAIN rs : ~rs[k]})

\* What the job service can report for the job of scene sceneIdx: still
\* running, done with a video, done with an error payload, done with no
\* video, done with a video object that has no uri.
JobReports(rs, sceneIdx) ==
    { [done |-> TRUE, error |-> FALSE, uri |-> "uri", handle |-> sceneIdx],
      [done |-> TRUE, error |-> TRUE, uri |-> NoUri, handle |-> NoHandle],
      [done |-> TRUE, error |-> FALSE, uri |-> NoUri, handle |-> NoHandle],
      [done |-> TRUE, error |-> FALSE, uri |-> NoUri, handle |-> sceneIdx] }
    \cup (IF NotDoneCount(rs) < MaxPolls THEN {NoOperation} ELSE {})


\* ------------------------------------------------------------ orchestrator
currentScene == parsedScenes[i]

\* A catch that lets the wrap event follow the error event.
Fail_ThenWrap(log) ==
    /\ logs' = addLog(addLog(log, "DIRECTOR", "critical failure", "error", 0),
                      "DIRECTOR", "that's a wrap", "success", 0)
    /\ isProcessing' = FALSE
    /\ outcome' = "failed"
    /\ pc' = "idle"

\* A catch without the finally block: the processing flag is left set.
Fail_NoFinally(log) ==
    /\ logs' = addLog(log, "DIRECTOR", "critical failure", "error", 0)
    /\ UNCHANGED isProcessing
    /\ outcome' = "failed"
    /\ pc' = "idle"

\* catch (error) { addLog(DIRECTOR, `Critical failure: ${error.message}`, 'error') }
\* finally { setIsProcessing(false) }     The messages thrown in
\* geminiService.ts interpolate no scene id.
Fail(log) ==
    /\ logs' = addLog(log, "DIRECTOR", "critical failure", "error", 0)
    /\ isProcessing' = FALSE
    /\ outcome' = "failed"
    /\ pc' = "idle"

\* useEffect(checkKey): the key is found in the environment or the host.
CheckKey ==
    /\ ~apiKeyReady
    /\ apiKeyReady' = TRUE
    /\ UNCHANGED << isProcessing, stopSignal, scenes, logs, pc, response,
                    parsedScenes, i, previousScene, continuityCheck, imageBase64,
                    veoArgs, operation, waits, queries, reports, calls, outcome >>
    /\ UNCHANGED lastRun

\* A run start that appends to the log of the run before.
FreshLogs_KeepsOld == addLog(logs, "DIRECTOR", "initiating", "info", 0)

\* setLogs([]) and the first addLog of the run.
FreshLogs == addLog(<< >>, "DIRECTOR", "initiating", "info", 0)

\* The run button (disabled while isProcessing or without a key): runDirector
\* up to the await of parseScriptWithGemini.
RunDirector ==
    /\ apiKeyReady
    /\ ~isProcessing
    /\ pc = "idle"
    /\ isProcessing' = TRUE
    /\ stopSignal' = FALSE
    /\ logs' = FreshLogs
    /\ scenes' = << >>
    /\ response' = PendingResponse
    /\ pc' = "parse"
    /\ parsedScenes' = << >>
    /\ i' = 0
    /\ previousScene' = NoScene
    /\ continuityCheck' = NoCheck
    /\ imageBase64' = NoImage
    /\ veoArgs' = NoArgs
    /\ operation' = NoOperation
    /\ waits' = 0
    /\ queries' = 0
    /\ reports' = << >>
    /\ calls' = << >>
    /\ outcome' = "none"
    /\ lastRun' = IF outcome = "wrapped" /\ stopSignal THEN "stopped" ELSE outcome
    /\ UNCHANGED apiKeyReady

\* runDirector is suspended at an await that yields to the event loop (an
\* external call or the poll timer); only there can other code run.
AtAwait ==
    \/ pc \in {"parse", "assets", "submit", "waiting", "querying"}
    \/ pc = "continuity" /\ previousScene # NoScene

\* The stop signal is raised by the caller while a run is in progress.
RequestStop ==
    /\ isProcessing
    /\ AtAwait
    /\ ~stopSignal
    /\ stopSignal' = TRUE
    /\ UNCHANGED << apiKeyReady, isProcessing, scenes, logs, pc, response,
                    parsedScenes, i, previousScene, continuityCheck, imageBase64,
                    veoArgs, operation, waits, queries, reports, calls, outcome >>
    /\ UNCHANGED lastRun

\* parseScriptWithGemini settles: setScenes, the PARSER event, the loop set up.
ParseReturn ==
    /\ pc = "parse"
    /\ \E resp \in SettledResponses(response) :
       LET r == parseScriptWithGemini(resp)
       IN  /\ calls' = calls \o ParserCalls(resp)
           /\ response' = NoResponse
           /\ IF r.threw
              THEN /\ Fail(logs)
                   /\ UNCHANGED << scenes, parsedScenes, i, previousScene >>
              ELSE /\ scenes' = r.scenes
                   /\ parsedScenes' = r.scenes
                   /\ logs' = addLog(logs, "PARSER", "parsed", "success", 0)
                   /\ i' = 1
                   /\ previousScene' = NoScene
                   /\ pc' = "loop"
                   /\ UNCHANGED << isProcessing, outcome >>
    /\ UNCHANGED << apiKeyReady, stopSignal, continuityCheck, imageBase64,
                    veoArgs, operation, waits, queries, reports >>
    /\ lastRun' = "none"

\* A loop that never reads the stop signal.
LoopContinues_IgnoresStop == i <= Len(parsedScenes)

\* for (...; i < parsedScenes.length; ...) { if (stopSignalRef.current) break;
LoopContinues == i <= Len(parsedScenes) /\ ~stopSignal

\* A loop exit that logs nothing.
WrapLog_Missing(log) == log

\* A loop exit that logs the wrap event only when the run was not stopped.
WrapLog_UnlessStopped(log) ==
    IF stopSignal THEN log ELSE addLog(log, "DIRECTOR", "that's a wrap", "success", 0)

\* addLog(AgentRole.DIRECTOR, "That's a wrap! All scenes processed.", 'success')
WrapLog(log) == addLog(log, "DIRECTOR", "that's a wrap", "success", 0)

\* The loop is left: the wrap event, then finally.
LoopExit ==
    /\ pc = "loop"
    /\ ~LoopContinues
    /\ logs' = WrapLog(logs)
    /\ isProcessing' = FALSE
    /\ outcome' = "wrapped"
    /\ pc' = "idle"
    /\ UNCHANGED << apiKeyReady, stopSignal, scenes, response, parsedScenes, i,
                    previousScene, continuityCheck, imageBase64, veoArgs,
                    operation, waits, queries, reports, calls >>
    /\ UNCHANGED lastRun

\* A scene is started: ANALYZING, the DIRECTOR event, checkContinuity called.
BeginScene ==
    /\ pc = "loop"
    /\ LoopContinues
    /\ scenes' = updateSceneStatus(scenes, currentScene.id, "ANALYZING")
    /\ logs' = addLog(logs, "DIRECTOR", "continuity requested", "info", currentScene.id)
    /\ pc' = "continuity"
    /\ UNCHANGED << apiKeyReady, isProcessing, stopSignal, response, parsedScenes,
                    i, previousScene, continuityCheck, imageBase64, veoArgs,
                    operation, waits, queries, reports, calls, outcome >>
    /\ UNCHANGED lastRun

\* A stage-hand request that forgets the status update.
StageHandStart_NoStatus(list, log, scene) ==
    [scenes |-> list,
     logs |-> addLog(addLog(log, "DIRECTOR", "stage hand requested", "info", scene.id),
                     "STAGE_HAND",
                     IF HasImageUrl(scene) THEN "fetching" ELSE "generating frame",
                     "info", 0)]

\* The events and status of the stage-hand request, up to the await of the
\* fetch or of the image synthesis.
StageHandStart(list, log, scene) ==
    [scenes |-> updateSceneStatus(list, scene.id, "PREPARING_ASSETS"),
     logs |-> addLog(addLog(log, "DIRECTOR", "stage hand requested", "info", scene.id),
                     "STAGE_HAND",
                     IF HasImageUrl(scene) THEN "fetching" ELSE "generating frame",
                     "info", 0)]

\* checkContinuity settles: the CONTINUITY_QA event, the decision stored in the
\* scene, then the stage hand is asked unless the scene extends.
ContinuityReturn ==
    /\ pc = "continuity"
    /\ \E resp \in ContinuityResponses :
         LET r == checkContinuity(i, previousScene, resp)
             l1 == addLog(logs, "CONTINUITY_QA", "analysis",
                          IF r.value.shouldExtend THEN "warning" ELSE "info",
                          currentScene.id)
             s1 == updateSceneData(scenes, currentScene.id,
                                   [feedback |-> r.value.reasoning,
                                    isExtension |-> r.value.shouldExtend])
             sh == StageHandStart(s1, l1, currentScene)
         IN  /\ calls' = calls \o r.calls
             /\ IF r.threw
                THEN /\ Fail(logs)
                     /\ UNCHANGED << scenes, continuityCheck, imageBase64 >>
                ELSE /\ continuityCheck' = r.value
                     /\ imageBase64' = NoImage
                     /\ UNCHANGED << isProcessing, outcome >>
                     /\ IF ~r.value.shouldExtend
                        THEN /\ scenes' = sh.scenes
                             /\ logs' = sh.logs
                             /\ pc' = "assets"
                        ELSE /\ scenes' = s1
                             /\ logs' = l1
                             /\ pc' = "greenlight"
    /\ UNCHANGED << apiKeyReady, stopSignal, response, parsedScenes, i,
                    previousScene, veoArgs, operation, waits, queries, reports >>
    /\ UNCHANGED lastRun

\* fetchImageAsBase64 or generateStageHandImage settles; a failure is caught
\* inside the loop body and logged as a STAGE_HAND warning.
AssetsReturn ==
    /\ pc = "assets"
    /\ \E ans \in AssetAnswers :
         /\ calls' = calls \o AssetCalls(currentScene, i, ans)
         /\ IF ans = "ok"
            THEN /\ imageBase64' = "b64"
                 /\ logs' = addLog(logs, "STAGE_HAND", "asset ready", "success", 0)
                 /\ scenes' = updateSceneData(scenes, currentScene.id,
                                              [imageBase64 |-> "b64"])
            ELSE /\ logs' = AssetFailureLog(logs)
                 /\ UNCHANGED << scenes, imageBase64 >>
    /\ pc' = "greenlight"
    /\ UNCHANGED << apiKeyReady, isProcessing, stopSignal, response, parsedScenes,
                    i, previousScene, continuityCheck, veoArgs, operation, waits,
                    queries, reports, outcome >>
    /\ UNCHANGED lastRun

\* GENERATING, the greenlight event, then generateVeoVideo up to the await of
\* generateVideos (getClient may find no key and throw before anything else).
Greenlight ==
    /\ pc = "greenlight"
    /\ LET l1 == addLog(logs, "DIRECTOR", "greenlit", "info", currentScene.id)
           args == VeoArgs(i, continuityCheck, previousScene, imageBase64)
       IN  /\ scenes' = updateSceneStatus(scenes, currentScene.id, "GENERATING")
           /\ veoArgs' = args
           /\ \E client \in {"ok", "nokey"} :
                IF client = "nokey"
                THEN /\ calls' = Append(calls,
                                         Call("getClient", "generateVeoVideo", i, "nokey"))
                     /\ Fail(l1)
                     /\ UNCHANGED << operation, waits, queries, reports >>
                ELSE /\ calls' = calls \o
                          << Call("getClient", "generateVeoVideo", i, "ok"),
                             GenerateCall(i, continuityCheck, previousScene, imageBase64) >>
                     /\ logs' = VeoOpeningLogs(l1, args, currentScene.id)
                     /\ operation' = NoOperation
                     /\ waits' = 0
                     /\ queries' = 0
                     /\ reports' = << >>
                     /\ pc' = "submit"
                     /\ UNCHANGED << isProcessing, outcome >>
    /\ UNCHANGED << apiKeyReady, stopSignal, response, parsedScenes, i,
                    previousScene, continuityCheck, imageBase64 >>
    /\ UNCHANGED lastRun

\* A generateVeoVideo that returns whatever the finished job holds.
AfterReport_NoChecks(op, log) ==
    /\ pc' = IF PollCondition(op) THEN "waiting" ELSE "returned"
    /\ logs' = log
    /\ UNCHANGED << isProcessing, outcome >>

\* The code after an operation object arrives: the poll loop's test, and once
\* the job is done the checks of error and locator.
AfterReport(op, log) ==
    IF PollCondition(op)
    THEN /\ pc' = "waiting"
         /\ logs' = log
         /\ UNCHANGED << isProcessing, outcome >>
    ELSE IF op.error \/ op.uri = NoUri
         THEN Fail(log)
         ELSE /\ pc' = "returned"
              /\ logs' = log
              /\ UNCHANGED << isProcessing, outcome >>

\* generateVideos settles.
SubmitReturn ==
    /\ pc = "submit"
    /\ \/ /\ Fail(logs)
          /\ UNCHANGED << operation, reports >>
       \/ \E op \in JobReports(reports, i) :
            /\ operation' = op
            /\ reports' = Append(reports, op.done)
            /\ AfterReport(op, addLog(logs, "GENERATOR", "submitted", "thinking", 0))
    /\ UNCHANGED << apiKeyReady, stopSignal, scenes, response, parsedScenes, i,
                    previousScene, continuityCheck, imageBase64, veoArgs, waits,
                    queries, calls >>
    /\ UNCHANGED lastRun

\* The 5-second timer fires and getVideosOperation is called.
PollWake ==
    /\ pc = "waiting"
    /\ waits' = waits + 1
    /\ queries' = queries + 1
    /\ pc' = "querying"
    /\ UNCHANGED << apiKeyReady, isProcessing, stopSignal, scenes, logs, response,
                    parsedScenes, i, previousScene, continuityCheck, imageBase64,
                    veoArgs, operation, reports, calls, outcome >>
    /\ UNCHANGED lastRun

\* getVideosOperation settles.
QueryReturn ==
    /\ pc = "querying"
    /\ \/ /\ Fail(logs)
          /\ UNCHANGED << operation, reports >>
       \/ \E op \in JobReports(reports, i) :
            /\ operation' = op
            /\ reports' = Append(reports, op.done)
            /\ AfterReport(op, logs)
    /\ UNCHANGED << apiKeyReady, stopSignal, scenes, response, parsedScenes, i,
                    previousScene, continuityCheck, imageBase64, veoArgs, waits,
                    queries, calls >>
    /\ UNCHANGED lastRun

\* A previous-scene pointer that keeps the parsed record, without the results.
NextPrevious_ParsedRecord(scene, updatedSceneData) == scene

\* previousScene = { ...currentScene, ...updatedSceneData }
NextPrevious(scene, updatedSceneData) == updatedSceneData @@ scene

\* A scene update that stores the locator and the status, but no handle.
updatedSceneData_NoHandle(videoResult) ==
    [videoUri |-> videoResult.uri, status |-> "COMPLETED"]

\* const updatedSceneData = { videoUri, videoHandle, status: COMPLETED }
updatedSceneData(videoResult) ==
    [videoUri |-> videoResult.uri,
     videoHandle |-> videoResult.handle,
     status |-> "COMPLETED"]

\* generateVeoVideo returned { uri, handle }: the scene is updated, the
\* GENERATOR event logged, previousScene replaced, and the loop steps.
SceneComplete ==
    /\ pc = "returned"
    /\ scenes' = updateSceneData(scenes, currentScene.id,
                                 updatedSceneData(operation))
    /\ previousScene' = NextPrevious(currentScene, updatedSceneData(operation))
    /\ logs' = addLog(logs, "GENERATOR", "wrapped", "success", currentScene.id)
    /\ i' = i + 1
    /\ pc' = "loop"
    /\ continuityCheck' = NoCheck
    /\ imageBase64' = NoImage
    /\ veoArgs' = NoArgs
    /\ operation' = NoOperation
    /\ waits' = 0
    /\ queries' = 0
    /\ reports' = << >>
    /\ UNCHANGED << apiKeyReady, isProcessing, stopSignal, response, parsedScenes,
                    calls, outcome >>
    /\ UNCHANGED lastRun

Init ==
    /\ apiKeyReady = FALSE
    /\ isProcessing = FALSE
    /\ stopSignal = FALSE
    /\ scenes = << >>
    /\ logs = << >>
    /\ pc = "idle"
    /\ response = NoResponse
    /\ parsedScenes = << >>
    /\ i = 0
    /\ previousScene = NoScene
    /\ continuityCheck = NoCheck
    /\ imageBase64 = NoImage
    /\ veoArgs = NoArgs
    /\ operation = NoOperation
    /\ waits = 0
    /\ queries = 0
    /\ reports = << >>
    /\ calls = << >>
    /\ outcome = "none"
    /\ lastRun = "none"

Next ==
    \/ CheckKey
    \/ RunDirector
    \/ RequestStop
    \/ ParseReturn
    \/ LoopExit
    \/ BeginScene
    \/ ContinuityReturn
    \/ AssetsReturn
    \/ Greenlight
    \/ SubmitReturn
    \/ PollWake
    \/ QueryReturn
    \/ SceneComplete

Spec == Init /\ [][Next]_vars


\* ----------------------------------------------- function-level specifications
\* generateVeoVideo and the canExtend of runDirector on every combination of
\* continuity verdict, previous scene (none, without handle, with handle) and
\* seed image: the state at the greenlight of scene i.
PreviousCandidates(list, k) ==
    {NoScene}
    \cup (IF k > 1
          THEN { [status |-> "COMPLETED", videoUri |-> "uri"] @@ list[k - 1],
                 [status |-> "COMPLETED", videoUri |-> "uri",
                  videoHandle |-> NoHandle] @@ list[k - 1],
                 [status |-> "COMPLETED", videoUri |-> "uri",
                  videoHandle |-> k - 1] @@ list[k - 1] }
          ELSE { [id |-> 0, title |-> "t", status |-> "COMPLETED", videoUri |-> "uri"] })

InitVeo ==
    /\ apiKeyReady = TRUE
    /\ isProcessing = TRUE
    /\ stopSignal = FALSE
    /\ parsedScenes \in { MapItems(items) :
                            items \in SeqUpTo(SchemaItems, MaxScenes) \ {<< >>} }
    /\ i \in DOMAIN parsedScenes
    /\ continuityCheck \in { [shouldExtend |-> b, reasoning |-> "model"] : b \in BOOLEAN }
    /\ previousScene \in PreviousCandidates(parsedScenes, i)
    /\ imageBase64 \in IF continuityCheck.shouldExtend THEN {NoImage} ELSE {NoImage, "b64"}
    /\ scenes = updateSceneStatus(parsedScenes, parsedScenes[i].id,
                    IF continuityCheck.shouldExtend THEN "ANALYZING" ELSE "PREPARING_ASSETS")
    /\ logs = << >>
    /\ pc = "greenlight"
    /\ response = NoResponse
    /\ veoArgs = NoArgs
    /\ operation = NoOperation
    /\ waits = 0
    /\ queries = 0
    /\ reports = << >>
    /\ calls = << >>
    /\ outcome = "none"
    /\ lastRun = "none"

NextVeo ==
    \/ Greenlight
    \/ SubmitReturn
    \/ PollWake
    \/ QueryReturn

SpecVeo == InitVeo /\ [][NextVeo]_vars

\* parseScriptWithGemini on every JSON array of at most MaxScenes items,
\* whatever fields the items carry: the state at the await of the parser call.
InitParser ==
    /\ apiKeyReady = TRUE
    /\ isProcessing = TRUE
    /\ stopSignal = FALSE
    /\ scenes = << >>
    /\ logs = addLog(<< >>, "DIRECTOR", "initiating", "info", 0)
    /\ pc = "parse"
    /\ response \in ResponsesOver(AnyItems)
    /\ parsedScenes = << >>
    /\ i = 0
    /\ previousScene = NoScene
    /\ continuityCheck = NoCheck
    /\ imageBase64 = NoImage
    /\ veoArgs = NoArgs
    /\ operation = NoOperation
    /\ waits = 0
    /\ queries = 0
    /\ reports = << >>
    /\ calls = << >>
    /\ outcome = "none"
    /\ lastRun = "none"

NextParser == ParseReturn

SpecParser == InitParser /\ [][NextParser]_vars


\* ------------------------------------------------------ runs under fairness
\* getVideosOperation reports the job as still running once more, after the
\* MaxPolls reports of that kind that the model counts: the while loop of
\* generateVeoVideo goes back to its timer. The poll counters waits and
\* queries and the list of reports stop at their bounds, so this round is
\* not counted; the code has no bound on the number of rounds.
StillRunning ==
    /\ pc = "querying"
    /\ NotDoneCount(reports) = MaxPolls
    /\ PollCondition(NoOperation)
    /\ operation' = NoOperation
    /\ pc' = "waiting"
    /\ waits' = waits - 1
    /\ queries' = queries - 1
    /\ UNCHANGED << apiKeyReady, isProcessing, stopSignal, scenes, logs, response,
                    parsedScenes, i, previousScene, continuityCheck, imageBase64,
                    veoArgs, reports, calls, outcome, lastRun >>

\* The parser call settles with a script of at most MaxLiveScenes scenes.
ParseReturnLive == ParseReturn /\ Len(parsedScenes') <= MaxLiveScenes

NextLive ==
    \/ CheckKey
    \/ RunDirector
    \/ RequestStop
    \/ ParseReturnLive
    \/ LoopExit
    \/ BeginScene
    \/ ContinuityReturn
    \/ AssetsReturn
    \/ Greenlight
    \/ SubmitReturn
    \/ PollWake
    \/ QueryReturn
    \/ StillRunning
    \/ SceneComplete

\* getVideosOperation reports the job as done.
ReportsDone == QueryReturn /\ operation'.done

\* The synchronous stretches of runDirector run to their next await.
CodeRuns ==
    /\ WF_vars(LoopExit)
    /\ WF_vars(BeginScene)
    /\ WF_vars(Greenlight)
    /\ WF_vars(SceneComplete)

\* Every external call eventually returns or fails, and the poll timer fires.
CallsReturn ==
    /\ WF_vars(ParseReturnLive)
    /\ WF_vars(ContinuityReturn)
    /\ WF_vars(AssetsReturn)
    /\ WF_vars(SubmitReturn)
    /\ WF_vars(PollWake)
    /\ WF_vars(QueryReturn \/ StillRunning)

\* Every submitted video job eventually reports done.
JobsFinish == SF_vars(ReportsDone)

\* The program with unbounded polling, under both assumptions.
SpecLive == Init /\ [][NextLive]_vars /\ CodeRuns /\ CallsReturn /\ JobsFinish

\* The same without the assumption that a job eventually reports done.
SpecCallsOnly == Init /\ [][NextLive]_vars /\ CodeRuns /\ CallsReturn


\* ------------------------------------------------------------------ properties
LastCall == calls[Len(calls)]
LastLog == logs[Len(logs)]

\* generateVeoVideo has submitted its request and has not returned to the loop.
VeoRunning == pc \in {"submit", "waiting", "querying", "returned"}

\* A scene is between its start and its completion.
InFlightPcs ==
    {"continuity", "assets", "greenlight", "submit", "waiting", "querying", "returned"}

ErrorEntries == { k \in DOMAIN logs : logs[k].status = "error" }

HasError(log) == \E k \in DOMAIN log : log[k].status = "error"

AssetCallFailed(c) ==
    c.by \in {"fetchImageAsBase64", "generateStageHandImage"} /\ c.answer = "fail"

\* The fetch or the image synthesis of the current scene has just thrown.
AssetJustFailed == pc = "greenlight" /\ calls # << >> /\ AssetCallFailed(LastCall)

\* The video job of the current scene finished with an error or with no locator.
JobFailed == operation.done /\ (operation.error \/ operation.uri = NoUri)

VideoRequests(k) ==
    { n \in DOMAIN calls : calls[n].api = "generateVideos" /\ calls[n].scene = k }

\* C1: the request submitted for a scene is the extension-mode request only
\* when the continuity verdict is extend and the previous scene carries a
\* handle; a verdict of extend with no previous scene or no handle gives the
\* fresh-mode request (1080p, fast model, no video attached).
C1_ExtensionNeedsVerdictAndHandle ==
    VeoRunning =>
        /\ LastCall.api = "generateVideos"
        /\ LastCall.mode = "extension" =>
               /\ continuityCheck.shouldExtend
               /\ HandleOf(previousScene) # NoHandle
               /\ LastCall.video = HandleOf(previousScene)
        /\ (continuityCheck.shouldExtend /\ HandleOf(previousScene) = NoHandle) =>
               /\ LastCall.mode = "fresh"
               /\ LastCall.video = NoHandle
               /\ LastCall.resolution = "1080p"
               /\ LastCall.model = "veo-3.1-fast-generate-preview"

C1_Witness ==
    /\ pc = "submit"
    /\ continuityCheck.shouldExtend
    /\ HandleOf(previousScene) = NoHandle
    /\ LastCall.api = "generateVideos"
    /\ LastCall.mode = "fresh"

\* C2: when the fetch or the image synthesis of a scene throws, the run goes
\* on: a STAGE_HAND warning is the event logged, no error event is logged for
\* it, and the next step sets the scene GENERATING and calls generateVeoVideo
\* with no seed image (an error event can then come only from that call's own
\* getClient).
C2_AssetFailureIsTolerated ==
    [][ /\ AssetJustFailed' =>
               /\ isProcessing'
               /\ outcome' = "none"
               /\ ~HasError(logs')
               /\ LastLog'.role = "STAGE_HAND"
               /\ LastLog'.status = "warning"
               /\ imageBase64' = NoImage
        /\ (AssetJustFailed /\ pc' # pc) =>
               /\ scenes'[i].status = "GENERATING"
               /\ veoArgs'.scene = i
               /\ veoArgs'.image = NoImage
               /\ LastCall'.by = "generateVeoVideo"
               /\ HasError(logs') => LastCall'.answer = "nokey"
               /\ LastCall'.answer # "nokey" =>
                      /\ pc' = "submit"
                      /\ LastCall'.api = "generateVideos"
                      /\ LastCall'.image = NoImage
      ]_vars

C2_Witness ==
    /\ pc = "submit"
    /\ Len(calls) >= 3
    /\ AssetCallFailed(calls[Len(calls) - 2])
    /\ calls[Len(calls) - 2].scene = i
    /\ scenes[i].status = "GENERATING"
    /\ LastCall.image = NoImage
    /\ ~HasError(logs)

\* C3: once the stop signal is set while a scene is in flight, that scene goes
\* on to COMPLETED or to a fatal failure and nothing else ends it; no IDLE
\* scene leaves IDLE, every further external call is for the scene in flight,
\* and at the loop head the run stops without starting a scene.
C3_StopNeverTruncatesNorStarts ==
    [][ /\ (stopSignal /\ isProcessing /\ pc \in InFlightPcs) =>
               /\ \A k \in DOMAIN scenes :
                      scenes[k].status = "IDLE" =>
                          k \in DOMAIN scenes' /\ scenes'[k].status = "IDLE"
               /\ \A n \in (Len(calls) + 1)..Len(calls') : calls'[n].scene = i
               /\ \/ pc' \in InFlightPcs /\ isProcessing' /\ i' = i
                  \/ pc' = "loop" /\ scenes'[i].status = "COMPLETED"
                  \/ pc' = "idle" /\ outcome' = "failed"
        /\ (stopSignal /\ isProcessing /\ pc = "loop") =>
               /\ pc' = "idle"
               /\ outcome' = "wrapped"
               /\ scenes' = scenes
               /\ calls' = calls
      ]_vars

C3_Witness ==
    /\ stopSignal
    /\ outcome = "wrapped"
    /\ Len(scenes) >= 2
    /\ scenes[1].status = "COMPLETED"
    /\ scenes[2].status = "IDLE"
    /\ \A n \in DOMAIN calls : calls[n].scene <= 1

\* C4: when the video job of scene i finishes with an error or with no
\* locator, the run is over and failed: scene i is not COMPLETED, exactly one
\* video request was ever submitted for it, and every later scene is IDLE with
\* no call made for it.
C4_JobFailureAbortsRun ==
    JobFailed =>
        /\ outcome = "failed"
        /\ ~isProcessing
        /\ pc = "idle"
        /\ scenes[i].status # "COMPLETED"
        /\ Cardinality(VideoRequests(i)) = 1
        /\ \A k \in DOMAIN scenes : k > i => scenes[k].status = "IDLE"
        /\ \A n \in DOMAIN calls : calls[n].scene <= i

C4_Witness ==
    /\ JobFailed
    /\ operation.error
    /\ outcome = "failed"
    /\ i = 1
    /\ Len(scenes) >= 2
    /\ waits >= 1

\* C5: when the continuity call of a non-first scene answers with a text that
\* cannot be parsed as the expected JSON (empty, or not JSON), checkContinuity
\* returns shouldExtend = false with the rationale "Parse error" and the run
\* is not aborted.
C5_UnparseableMeansDoNotExtend ==
    (/\ calls # << >>
     /\ LastCall.by = "checkContinuity"
     /\ LastCall.api = "generateContent"
     /\ LastCall.answer \in {"empty", "malformed"}) =>
        /\ outcome # "failed"
        /\ isProcessing
        /\ continuityCheck = [shouldExtend |-> FALSE, reasoning |-> "Parse error"]

\* C6: the poll loop goes on exactly while the job is reported not done; a
\* result is returned only after a done report, after one 5-second wait and
\* one status query per not-done report: two waits and two queries when the
\* service reports not done, not done, done.
C6_PollUntilDone ==
    /\ pc \in {"waiting", "querying"} => ~operation.done
    /\ pc = "returned" =>
           /\ operation.done
           /\ reports[Len(reports)]
           /\ waits = NotDoneCount(reports)
           /\ queries = NotDoneCount(reports)
           /\ Len(reports) = waits + 1
    /\ (pc = "returned" /\ reports = << FALSE, FALSE, TRUE >>) =>
           waits = 2 /\ queries = 2

C6_Witness ==
    /\ pc = "returned"
    /\ reports = << FALSE, FALSE, TRUE >>
    /\ waits = 2
    /\ queries = 2

\* C7: for a scene with no previous scene checkContinuity answers
\* shouldExtend = false without any external call (no getClient, no
\* generateContent), and the video request of the first scene is never the
\* extension-mode request.
C7_FirstSceneNeverExtends ==
    /\ (pc \in (InFlightPcs \ {"continuity"}) /\ previousScene = NoScene) =>
           /\ ~continuityCheck.shouldExtend
           /\ continuityCheck.reasoning = "first scene"
           /\ scenes[i].isExtension = FALSE
           /\ \A n \in DOMAIN calls : calls[n].by # "checkContinuity"
    /\ \A n \in DOMAIN calls :
           (calls[n].api = "generateVideos" /\ calls[n].scene = 1) =>
               calls[n].mode = "fresh"

C7_Witness ==
    /\ pc = "submit"
    /\ i = 1
    /\ previousScene = NoScene
    /\ LastCall.mode = "fresh"

\* C8: for every array the parser call returns, whatever fields its items
\* carry, the scenes parseScriptWithGemini hands to the loop have the ids
\* 1, 2, ..., n in input order and status IDLE.
C8_IdsDenseFromOne ==
    (pc = "loop" /\ i = 1) =>
        \A k \in DOMAIN scenes : scenes[k].id = k /\ scenes[k].status = "IDLE"

\* C9: a run that ended in a fatal failure has exactly one error entry in its
\* log, attributed to DIRECTOR, and it is the last entry (no wrap event).
C9_SingleTerminalError ==
    outcome = "failed" =>
        /\ ~isProcessing
        /\ ErrorEntries = {Len(logs)}
        /\ LastLog.role = "DIRECTOR"
        /\ \A k \in DOMAIN logs : logs[k].message # "that's a wrap"

C9_Witness ==
    /\ outcome = "failed"
    /\ Len(parsedScenes) >= 2
    /\ i = 2
    /\ LastLog.status = "error"

\* C10: when the video job of scene k completes with an error payload and no
\* locator, the fatal error event names scene k.
C10_FatalErrorNamesScene ==
    (operation.done /\ operation.error /\ outcome = "failed") =>
        /\ LastLog.status = "error"
        /\ LastLog.scene = currentScene.id

InFlightStatuses == {"ANALYZING", "PREPARING_ASSETS", "GENERATING"}

InFlightScenes == { k \in DOMAIN scenes : scenes[k].status \in InFlightStatuses }

\* C11: in every reachable state at most one scene of the scene list has an
\* in-flight status (ANALYZING, PREPARING_ASSETS or GENERATING), across run
\* starts, stop requests, scene completions and fatal failures.
C11_AtMostOneInFlight == Cardinality(InFlightScenes) <= 1

C11_Witness ==
    /\ pc = "waiting"
    /\ i = 2
    /\ Len(scenes) >= 3
    /\ scenes[1].status = "COMPLETED"
    /\ scenes[2].status = "GENERATING"
    /\ scenes[3].status = "IDLE"

\* C12: when a run fails while scene i is in an in-progress status, scene i's
\* status is ERROR from then on, and once a run has ended no scene is left in
\* an in-progress status.
C12_FailureMarksSceneError ==
    /\ (outcome = "failed" /\ i \in DOMAIN scenes) => scenes[i].status = "ERROR"
    /\ ~isProcessing => InFlightScenes = {}

\* The external calls of the asset preparer made for scene k.
AssetCallsFor(k) ==
    { n \in DOMAIN calls :
        /\ calls[n].by \in {"fetchImageAsBase64", "generateStageHandImage"}
        /\ calls[n].scene = k }

\* The log entries that announce the asset preparation of the scene with id.
StageHandEntriesFor(id) ==
    { n \in DOMAIN logs :
        logs[n].message = "stage hand requested" /\ logs[n].scene = id }

\* C13: a scene k > 1 whose continuity verdict is extend, after scene k-1
\* completed with a handle, gets the extension-mode request carrying the
\* handle that scene k-1's job produced in this run; it is never
\* PREPARING_ASSETS and no image fetch or image synthesis is made for it.
C13_ExtensionUsesPreviousHandle ==
    /\ (VeoRunning /\ i > 1 /\ continuityCheck.shouldExtend) =>
           /\ LastCall.api = "generateVideos"
           /\ LastCall.scene = i
           /\ LastCall.mode = "extension"
           /\ LastCall.video = i - 1
           /\ LastCall.video = scenes[i - 1].videoHandle
           /\ LastCall.image = NoImage
           /\ LastCall.resolution = "720p"
           /\ LastCall.model = "veo-3.1-generate-preview"
    /\ \A k \in DOMAIN scenes :
           (Has(scenes[k], "isExtension") /\ scenes[k].isExtension) =>
               /\ k > 1
               /\ scenes[k].status # "PREPARING_ASSETS"
               /\ AssetCallsFor(k) = {}
               /\ StageHandEntriesFor(scenes[k].id) = {}
               /\ ~Has(scenes[k], "imageBase64")
               /\ \A n \in VideoRequests(k) :
                      calls[n].mode = "extension" /\ calls[n].video = k - 1

C13_Witness ==
    /\ pc = "returned"
    /\ i = 3
    /\ continuityCheck.shouldExtend
    /\ LastCall.mode = "extension"
    /\ LastCall.video = 2
    /\ scenes[2].videoHandle = 2
    /\ ~scenes[2].isExtension

IsVideoRequest(c) == c.api = "generateVideos"

\* The video requests of this run, in the order they were submitted.
VideoCalls == SelectSeq(calls, IsVideoRequest)

NoSceneExtends ==
    \A k \in DOMAIN scenes : ~(Has(scenes[k], "isExtension") /\ scenes[k].isExtension)

AllCompleted == \A k \in DOMAIN scenes : scenes[k].status = "COMPLETED"

\* C14: while no continuity check of the run has returned extend, the video
\* requests are fresh-mode requests without a handle, the n-th for scene n; a
\* run of 3 scenes that completes this way has submitted exactly 3 of them.
C14_IndependentScenesAllFresh ==
    /\ NoSceneExtends =>
           \A n \in DOMAIN VideoCalls :
               /\ VideoCalls[n].scene = n
               /\ VideoCalls[n].mode = "fresh"
               /\ VideoCalls[n].video = NoHandle
               /\ VideoCalls[n].resolution = "1080p"
    /\ (Len(scenes) = 3 /\ outcome = "wrapped" /\ AllCompleted /\ NoSceneExtends) =>
           Len(VideoCalls) = 3

C14_Witness ==
    /\ Len(scenes) = 3
    /\ outcome = "wrapped"
    /\ AllCompleted
    /\ NoSceneExtends
    /\ Len(VideoCalls) = 3
    /\ \A n \in 1..3 : VideoCalls[n].scene = n /\ VideoCalls[n].mode = "fresh"

\* The parser call of this run answered with an empty text or an empty array.
ParserYieldedNothing ==
    /\ Len(calls) >= 2
    /\ calls[2].by = "parseScriptWithGemini"
    /\ calls[2].api = "generateContent"
    /\ \/ calls[2].answer = "empty"
       \/ calls[2].answer = "array" /\ parsedScenes = << >>

\* C15: when the parser yields zero scenes (an empty array or an empty
\* response text) the run is not an error: no error event is logged, no call
\* other than the parser's is made, the scene list is empty and the run ends
\* with the wrap event.
C15_EmptyScriptIsNotAnError ==
    ParserYieldedNothing =>
        /\ ~HasError(logs)
        /\ outcome # "failed"
        /\ scenes = << >>
        /\ Len(calls) = 2
        /\ pc \in {"loop", "idle"}
        /\ pc = "idle" =>
               /\ outcome = "wrapped"
               /\ ~isProcessing
               /\ LastLog.message = "that's a wrap"

C15_Witness ==
    /\ ParserYieldedNothing
    /\ calls[2].answer = "empty"
    /\ pc = "idle"
    /\ outcome = "wrapped"
    /\ scenes = << >>

WrapEntries == { n \in DOMAIN logs : logs[n].message = "that's a wrap" }

\* The run has ended and every scene the parser produced is COMPLETED.
EndedAllCompleted ==
    /\ pc = "idle"
    /\ ~isProcessing
    /\ Len(parsedScenes) >= 1
    /\ Len(scenes) = Len(parsedScenes)
    /\ AllCompleted

\* C16: a run that ended with every parsed scene COMPLETED has logged the
\* DIRECTOR wrap event exactly once, as the last entry of its log, right after
\* the completion event of the last scene, and logged no error.
C16_WrapEndsCompletedRun ==
    EndedAllCompleted =>
        /\ outcome = "wrapped"
        /\ WrapEntries = {Len(logs)}
        /\ LastLog = Entry("DIRECTOR", "that's a wrap", "success", 0)
        /\ logs[Len(logs) - 1] =
               Entry("GENERATOR", "wrapped", "success", scenes[Len(scenes)].id)
        /\ ~HasError(logs)

C16_Witness ==
    /\ EndedAllCompleted
    /\ Len(scenes) = 3
    /\ ~stopSignal
    /\ LastLog.message = "that's a wrap"

\* The status changes a scene may make in one step.
StatusSteps ==
    { << "IDLE", "ANALYZING" >>,
      << "ANALYZING", "PREPARING_ASSETS" >>,
      << "ANALYZING", "GENERATING" >>,
      << "PREPARING_ASSETS", "GENERATING" >>,
      << "GENERATING", "COMPLETED" >> }

\* C17: within a run a scene's status moves only IDLE -> ANALYZING ->
\* [PREPARING_ASSETS] -> GENERATING -> COMPLETED; when the continuity check
\* of the scene settles, the scene enters PREPARING_ASSETS exactly if the
\* verdict is shouldExtend = false, and it goes from ANALYZING straight to
\* GENERATING only with a verdict of true.
C17_StatusLifecycle ==
    [][ /\ \A k \in (DOMAIN scenes) \cap (DOMAIN scenes') :
               \/ scenes'[k].status = scenes[k].status
               \/ /\ << scenes[k].status, scenes'[k].status >> \in StatusSteps
                  /\ k = i
                  /\ scenes[k].status = "ANALYZING" =>
                         (scenes'[k].status = "PREPARING_ASSETS"
                              <=> ~continuityCheck'.shouldExtend)
                  /\ (scenes[k].status = "ANALYZING"
                          /\ scenes'[k].status = "GENERATING") =>
                         continuityCheck.shouldExtend
        /\ (pc = "continuity" /\ pc' \in InFlightPcs \ {"continuity"}) =>
               (scenes'[i].status = "PREPARING_ASSETS"
                    <=> ~continuityCheck'.shouldExtend)
      ]_vars

C17_Witness ==
    /\ pc = "greenlight"
    /\ i = 2
    /\ continuityCheck.shouldExtend
    /\ scenes[2].status = "ANALYZING"
    /\ scenes[1].status = "COMPLETED"
    /\ StageHandEntriesFor(scenes[1].id) # {}
    /\ StageHandEntriesFor(scenes[2].id) = {}

\* -------------------------------------------------------------------- C18

InitiatingEntry == Entry("DIRECTOR", "initiating", "info", 0)

\* C18: starting a run resets all prior state before anything else happens:
\* when the parser is invoked the scene list is empty, the event log holds
\* only the run's opening entry and no call or previous scene of an earlier
\* run is left; afterwards the log opens with that one entry and
\* holds no second one, every video locator in the scene list was produced
\* by a video request of the current run and every log entry about a scene
\* is about a scene the current run has begun, however the run before ended.
C18_RunStartsClean ==
    /\ pc = "parse" =>
          /\ scenes = << >>
          /\ logs = << InitiatingEntry >>
          /\ calls = << >>
          /\ previousScene = NoScene
          /\ isProcessing
    /\ logs # << >> =>
          /\ logs[1] = InitiatingEntry
          /\ \A n \in DOMAIN logs : logs[n] = InitiatingEntry => n = 1
    /\ \A k \in DOMAIN scenes :
          Has(scenes[k], "videoUri") => VideoRequests(k) # {}
    /\ \A n \in DOMAIN logs : logs[n].scene # 0 =>
          logs[n].scene \in 1..i

\* The parser is being invoked by a run that follows a run ended by a fatal
\* error.
C18_Witness == pc = "parse" /\ lastRun = "failed"

\* Runs also start after a wrapped and after a stopped run.
C18_AfterWrap == pc = "parse" /\ lastRun = "wrapped"

C18_AfterStop == pc = "parse" /\ lastRun = "stopped"

\* -------------------------------------------------------------------- C19

\* The invocations of fetchImageAsBase64 for scene k: one fetch each.
FetchesFor(k) ==
    { n \in AssetCallsFor(k) : calls[n].by = "fetchImageAsBase64" }

\* The invocations of generateStageHandImage for scene k: one getClient each.
SynthesesFor(k) ==
    { n \in AssetCallsFor(k) :
        calls[n].by = "generateStageHandImage" /\ calls[n].api = "getClient" }

\* C19: for each scene the asset preparer invokes at most one of its two
\* strategies: the fetch only for a scene with a reference image URL, the
\* synthesis only for a scene without one, neither for a scene whose
\* continuity decision is extend, and no synthesis after a failed fetch.
C19_OneAssetStrategy ==
    \A k \in DOMAIN scenes :
        LET fetches == FetchesFor(k)
            syntheses == SynthesesFor(k)
        IN  /\ \A n, m \in fetches \cup syntheses : n = m
            /\ fetches # {} => HasImageUrl(scenes[k])
            /\ syntheses # {} => ~HasImageUrl(scenes[k])
            /\ fetches \cup syntheses # {} =>
                  Has(scenes[k], "isExtension") /\ ~scenes[k].isExtension
            /\ (\E n \in fetches : calls[n].answer = "fail") => syntheses = {}

\* A scene's fetch has failed and its video was requested all the same, and
\* a scene decided as an extension has had its video requested too.
C19_Witness ==
    /\ \E k \in DOMAIN scenes :
          /\ \E n \in FetchesFor(k) : calls[n].answer = "fail"
          /\ VideoRequests(k) # {}
    /\ \E k \in DOMAIN scenes :
          /\ Has(scenes[k], "isExtension") /\ scenes[k].isExtension
          /\ VideoRequests(k) # {}

\* -------------------------------------------------------------------- C20

CompletedScenes == { k \in DOMAIN scenes : scenes[k].status = "COMPLETED" }

\* C20: in every reachable state the COMPLETED scenes are the scenes 1..j of
\* the scene list, each of them has a non-empty video locator and a
\* continuation handle, no other scene has a locator, the in-flight scene if
\* any is scene j+1, every scene after it is IDLE, and a previous-scene
\* reference that is not null carries a handle.
C20_CompletedPrefix ==
    /\ \E j \in 0..Len(scenes) :
          /\ CompletedScenes = 1..j
          /\ InFlightScenes \subseteq {j + 1}
          /\ \A k \in DOMAIN scenes : k > j + 1 => scenes[k].status = "IDLE"
    /\ \A k \in CompletedScenes :
          /\ Has(scenes[k], "videoUri") /\ scenes[k].videoUri # NoUri
          /\ HandleOf(scenes[k]) # NoHandle
    /\ \A k \in (DOMAIN scenes) \ CompletedScenes :
          ~Has(scenes[k], "videoUri") /\ HandleOf(scenes[k]) = NoHandle
    /\ previousScene # NoScene =>
          /\ HandleOf(previousScene) # NoHandle
          /\ previousScene.id \in CompletedScenes

\* Two scenes are completed, the third is in flight with the second as its
\* previous scene.
C20_Witness ==
    /\ Len(scenes) = 3
    /\ CompletedScenes = {1, 2}
    /\ InFlightScenes = {3}
    /\ previousScene # NoScene
    /\ previousScene.id = 2

\* One scene is completed, the second is in flight and the third is idle.
C20_IdleAfterInFlight ==
    /\ Len(scenes) = 3
    /\ CompletedScenes = {1}
    /\ InFlightScenes = {2}
    /\ scenes[3].status = "IDLE"

\* -------------------------------------------------------------------- C21

\* A run was started and has ended.
RunEnded == ~isProcessing /\ logs # << >>

\* C21: every run that ends without a fatal failure has emitted the wrap
\* event, once and as its last log entry, also when the stop signal halted it
\* with scenes still IDLE; a run in progress has not emitted it.
C21_WrapUnlessFailed ==
    /\ (RunEnded /\ ~HasError(logs)) =>
          /\ outcome = "wrapped"
          /\ WrapEntries = {Len(logs)}
          /\ LastLog = Entry("DIRECTOR", "that's a wrap", "success", 0)
    /\ isProcessing => WrapEntries = {}

\* A stopped run has ended with the wrap event while its first scene is
\* COMPLETED and its last scene is still IDLE.
C21_Witness ==
    /\ RunEnded
    /\ stopSignal
    /\ LastLog.message = "that's a wrap"
    /\ Len(scenes) >= 2
    /\ scenes[1].status = "COMPLETED"
    /\ scenes[Len(scenes)].status = "IDLE"

\* -------------------------------------------------------------------- C22

\* The log ends with the wrap event and holds no error, or ends with the one
\* error event and holds no wrap event.
EndedProperly ==
    /\ logs # << >>
    /\ \/ /\ LastLog = Entry("DIRECTOR", "that's a wrap", "success", 0)
          /\ ErrorEntries = {}
       \/ /\ LastLog = Entry("DIRECTOR", "critical failure", "error", 0)
          /\ ErrorEntries = {Len(logs)}
          /\ WrapEntries = {}

\* C22: provided every external call eventually returns or fails and every
\* submitted video job eventually reports done, every started run terminates:
\* the processing flag, once set, is eventually cleared, and with the flag
\* cleared the log of a started run ends with the wrap event or with the
\* single fatal error event.
C22_RunTerminates ==
    /\ isProcessing ~> (~isProcessing /\ EndedProperly)
    /\ [](RunEnded => EndedProperly)

\* A run has ended, its flag cleared, by the failure of its second scene's
\* job after that job was reported as still running MaxPolls times.
C22_Witness ==
    /\ RunEnded
    /\ EndedProperly
    /\ outcome = "failed"
    /\ i = 2
    /\ JobFailed
    /\ NotDoneCount(reports) = MaxPolls

\* Without the assumption on the jobs the run need not end: under
\* SpecCallsOnly the poll loop can go round forever and this fails.
C22_TerminatesWithoutJobsFinish == isProcessing ~> ~isProcessing

====
